---- MODULE Spec2Model ----
(***************************************************************************)
(* State machine of the evaluation arena page (src/agentic/src/app):       *)
(* the React state of HomePage, the click handlers of HomePage,            *)
(* ModelSelector, PromptInput and EvaluationDeck, and the delayed callback *)
(* that runEvaluation schedules with window.setTimeout.                    *)
(*                                                                         *)
(* Optional values (T | null) are sequences of length 0 or 1: NULL is <<>> *)
(* and Some(v) is <<v>>.  Strings the code inspects character by character *)
(* (the prompt, a file name) are sequences of one-character strings.       *)
(***************************************************************************)
EXTENDS Integers, Sequences, FiniteSets, TLC

VARIABLES selectedModelIds, selectedModels, prompt, mode, imageFile,
          imagePreview, imageDescriptor, isProcessing, errorMessage, result,
          userChoice, alignment, runCounter, timers, installed, events,
          lastEvent

vars == <<selectedModelIds, selectedModels, prompt, mode, imageFile,
          imagePreview, imageDescriptor, isProcessing, errorMessage, result,
          userChoice, alignment, runCounter, timers, installed, events,
          lastEvent>>

\* timers: the closures of the window.setTimeout callbacks not yet run.
\* installed: the closure whose callback computed the result now held (NULL
\* with no result): what the result was launched with.
\* events, lastEvent: how many user events happened, and the latest handler.

\* ------------------------------------------------------------------ bounds

\* User events (clicks, edits) explored per behaviour; the timer callback is
\* not a user event and is never held back by this bound.
MaxEvents == 3

\* Longest prompt the user types, over the alphabet PromptChars.
MaxPromptLen == 1

\* ------------------------------------------------------- program constants

MAX_SELECTIONS == 5

MIN_MODELS == 4

NULL == <<>>

Some(v) == <<v>>

\* The roster, in source order (ids only: every other field is display text).
MODEL_OPTIONS ==
    <<"gpt4o", "claude3-opus", "gemini-1.5", "llama3-70b",
      "mistral-large", "qwen2-vl", "idefics3">>

\* ModelSelector sorts the roster it is handed, in place, by display name:
\* Claude 3 Opus, Gemini 1.5 Pro, GPT-4.1 Omni, Idefics 3, Llama 3 70B,
\* Mistral Large, Qwen2 VL 72B.  The array is MODEL_OPTIONS itself, so after
\* the first render every reader of MODEL_OPTIONS sees this order.
availableModels ==
    <<"claude3-opus", "gemini-1.5", "gpt4o", "idefics3",
      "llama3-70b", "mistral-large", "qwen2-vl">>

ModelIds == {MODEL_OPTIONS[i] : i \in 1..Len(MODEL_OPTIONS)}

PromptMode == {"text", "image", "multimodal"}

\* Stands for the long default text: non-blank, no surrounding whitespace.
DEFAULT_PROMPT == <<"Y", "o", "u">>

DEFAULT_SELECTION == <<"gpt4o", "claude3-opus", "gemini-1.5", "llama3-70b">>

MSG_MIN_MODELS == "Select at least 4 models to run a comparison."

MSG_NO_PROMPT == "Provide a prompt to evaluate."

\* ------------------------------------------------------------------ inputs

PromptChars == {" ", "q"}

RECURSIVE SeqsUpTo(_, _)
SeqsUpTo(S, n) ==
    IF n = 0 THEN {<<>>}
    ELSE LET shorter == SeqsUpTo(S, n - 1)
         IN  shorter \cup {Append(s, c) : s \in shorter, c \in S}

\* What the user can put in the textarea.
Prompts == {DEFAULT_PROMPT} \cup SeqsUpTo(PromptChars, MaxPromptLen)

\* File names the user can pick in the file dialog.
Files == {<<"a", "_", "b", ".", "p">>, <<"c", ".">>}

\* ----------------------------------------------------------- pure helpers

Includes(seq, x) == \E i \in 1..Len(seq) : seq[i] = x

\* The set of a list's elements.
Elems(seq) == {seq[i] : i \in 1..Len(seq)}

\* Array.prototype.filter keeping the elements different from x.
FilterOut(seq, x) == SelectSeq(seq, LAMBDA y : y # x)

IsSpace(c) == c = " "

\* String.prototype.trim.
RECURSIVE Trim(_)
Trim(s) ==
    IF s = <<>> THEN s
    ELSE IF IsSpace(Head(s)) THEN Trim(Tail(s))
    ELSE IF IsSpace(s[Len(s)]) THEN Trim(SubSeq(s, 1, Len(s) - 1))
    ELSE s

\* name.replace(/\.[^.]+$/, ""): drop a final extension, that is the last
\* dot and what follows it, when at least one character follows it.
StripExtension(name) ==
    LET dots == {i \in 1..Len(name) : name[i] = "."}
    IN  IF dots = {} THEN name
        ELSE LET last == CHOOSE i \in dots : \A j \in dots : j <= i
             IN  IF last = Len(name) THEN name
                 ELSE SubSeq(name, 1, last - 1)

\* .replace(/[-_]/g, " ")
ReplaceSeparators(s) ==
    [i \in 1..Len(s) |-> IF s[i] \in {"-", "_"} THEN " " ELSE s[i]]

Descriptor(name) == ReplaceSeparators(StripExtension(name))

\* useMemo: MODEL_OPTIONS.filter(model => selectedModelIds.includes(model.id)),
\* evaluated on the roster in the order it has at that time.
SelectedModelsMemo(options, ids) ==
    SelectSeq(options, LAMBDA m : Includes(ids, m))

\* handleToggleModel without its branch for a model already selected.
HandleToggleModelNoRemove(prev, modelId) ==
    IF Len(prev) >= MAX_SELECTIONS THEN prev
    ELSE Append(prev, modelId)

\* The updater handleToggleModel passes to setSelectedModelIds.
HandleToggleModel(prev, modelId) ==
    IF Includes(prev, modelId) THEN FilterOut(prev, modelId)
    ELSE IF Len(prev) >= MAX_SELECTIONS THEN prev
    ELSE Append(prev, modelId)

\* ModelSelector: a card is disabled when it is unselected and the quota is
\* reached; its click handler returns before onToggle.
quotaReached == Len(selectedModelIds) >= MAX_SELECTIONS

Disabled(modelId) == ~Includes(selectedModelIds, modelId) /\ quotaReached

\* ------------------------------------------------ lib/scoring (not in src/)
\* The scoring library is imported by page.tsx but is not among the source
\* files.  Its functions are modelled as deterministic functions of their
\* arguments: a response or an evaluation is the record of the arguments it
\* was generated from, keyed by the ids its type declares (types/index.ts).

generateModelResponse(model, p, m, image) ==
    [modelId |-> model, prompt |-> p, mode |-> m, image |-> image]

generateCrossEvaluation(evaluator, target, p, m, seed) ==
    [evaluatorId |-> evaluator, targetId |-> target,
     prompt |-> p, mode |-> m, seed |-> seed]

\* One entry per response, in a synthetic ranking derived from the seed: the
\* responses' order rotated by the seed's length.
computeLeaderboard(responses, crossEvaluations) ==
    LET n == Len(responses)
        shift == IF crossEvaluations = <<>> THEN 0
                 ELSE Len(crossEvaluations[1].seed)
    IN  [i \in 1..n |->
            [modelId |-> responses[((i - 1 + shift) % n) + 1].modelId]]

synthesiseGeminiVerdict(models, leaderboard, topThree, crossEvaluations) ==
    Some([orderedModelIds |-> topThree])

\* delta is the position of the user's choice in the arbiter's order, 999
\* when the arbiter did not rank it (page.tsx hides the offset 999).
summariseAlignment(verdict, choice) ==
    LET order == verdict.orderedModelIds
        delta == IF Includes(order, choice)
                 THEN (CHOOSE i \in 1..Len(order) : order[i] = choice) - 1
                 ELSE 999
    IN  [alignment |-> IF delta = 0 THEN "aligned" ELSE "divergent",
         delta |-> delta]

\* ---------------------------------------------------------- runEvaluation

\* `${prompt}|${mode}|${imageDescriptor ?? ""}|${runCounter}` as the sequence
\* of its pieces: the prompt's and the descriptor's characters, the mode and
\* the counter's decimal text as one piece each.
SeedImageField(descriptor) == IF descriptor = NULL THEN <<>> ELSE descriptor[1]

PayloadSeed(p, m, descriptor, counter) ==
    p \o <<"|", m, "|">> \o SeedImageField(descriptor)
      \o <<"|", ToString(counter)>>

\* What the delayed callback closes over: the values of the render in which
\* Run was clicked.
Closure ==
    [selectedModels |-> selectedModels, prompt |-> prompt, mode |-> mode,
     imageDescriptor |-> imageDescriptor,
     payloadSeed |-> PayloadSeed(prompt, mode, imageDescriptor, runCounter)]

\* The map handing the payload seed to the response generator as well.
ResponsesSeeded(cb) ==
    [i \in 1..Len(cb.selectedModels) |->
        generateModelResponse(cb.selectedModels[i], cb.prompt, cb.mode,
                              Some(cb.payloadSeed))]

\* selectedModels.map(model => generateModelResponse(model, prompt, mode,
\* imageDescriptor ?? undefined))
Responses(cb) ==
    [i \in 1..Len(cb.selectedModels) |->
        generateModelResponse(cb.selectedModels[i], cb.prompt, cb.mode,
                              cb.imageDescriptor)]

\* The nested forEach skipping the pairs of a model with itself.
CrossEvaluationsNoSelf(cb) ==
    LET n == Len(cb.selectedModels)
        all == [k \in 1..(n * n) |->
                   generateCrossEvaluation(
                       cb.selectedModels[((k - 1) \div n) + 1],
                       cb.selectedModels[((k - 1) % n) + 1],
                       cb.prompt, cb.mode, cb.payloadSeed)]
    IN  SelectSeq(all, LAMBDA e : e.evaluatorId # e.targetId)

\* The nested forEach: evaluators outermost, one push per target.
CrossEvaluations(cb) ==
    LET n == Len(cb.selectedModels)
    IN  [k \in 1..(n * n) |->
            generateCrossEvaluation(cb.selectedModels[((k - 1) \div n) + 1],
                                    cb.selectedModels[((k - 1) % n) + 1],
                                    cb.prompt, cb.mode, cb.payloadSeed)]

\* leaderboard.slice(0, 3).map(entry => entry.modelId)
TopThree(leaderboard) ==
    LET n == IF Len(leaderboard) < 3 THEN Len(leaderboard) ELSE 3
    IN  [i \in 1..n |-> leaderboard[i].modelId]

\* A callback that reads the current render's values, not its closure's.
RunResultLive(cb) ==
    LET live == Closure
        responses == Responses(live)
        crossEvaluations == CrossEvaluations(live)
        leaderboard == computeLeaderboard(responses, crossEvaluations)
        topThree == TopThree(leaderboard)
    IN  [responses |-> responses,
         crossEvaluations |-> crossEvaluations,
         leaderboard |-> leaderboard,
         geminiVerdict |-> synthesiseGeminiVerdict(live.selectedModels,
                               leaderboard, topThree, crossEvaluations),
         topThree |-> topThree]

\* The ResultState the callback installs.
RunResult(cb) ==
    LET responses == Responses(cb)
        crossEvaluations == CrossEvaluations(cb)
        leaderboard == computeLeaderboard(responses, crossEvaluations)
        topThree == TopThree(leaderboard)
    IN  [responses |-> responses,
         crossEvaluations |-> crossEvaluations,
         leaderboard |-> leaderboard,
         geminiVerdict |-> synthesiseGeminiVerdict(cb.selectedModels,
                               leaderboard, topThree, crossEvaluations),
         topThree |-> topThree]

\* The effect on [userChoice, result?.geminiVerdict]: when a dependency
\* changed and both are set, it records the alignment; otherwise alignment
\* keeps the value the handler gave it.
AlignmentEffect(depsChanged, choice, res, current) ==
    IF depsChanged /\ choice # NULL /\ res # NULL
       /\ res[1].geminiVerdict # NULL
    THEN Some(summariseAlignment(res[1].geminiVerdict[1], choice[1]))
    ELSE current

\* A Run button that is never disabled.
RunDisabledNever == FALSE

\* The Run button's disabled attribute.
RunDisabled == isProcessing

\* The first check written with <= for <, one model short.
TooFewModelsOffByOne == Len(selectedModels) < MIN_MODELS - 1

\* runEvaluation's first check: selectedModels.length < MIN_MODELS.
TooFewModels == Len(selectedModels) < MIN_MODELS

\* The second check without trim().
PromptBlankNoTrim == prompt = <<>>

\* runEvaluation's second check: !prompt.trim().
PromptBlank == Trim(prompt) = <<>>

\* A callback that leaves isProcessing as it finds it.
ProcessingAfterRunKept == isProcessing

\* The callback's setIsProcessing(false).
ProcessingAfterRun == FALSE

\* buildMatrix: a null cell for every pair of the models given, then every
\* evaluation stored in the cell of its evaluator and target (the last one
\* wins), with a fresh row for an evaluator that is not among the models.
BuildMatrix(evaluations, models) ==
    LET ks == 1..Len(evaluations)
        rows == Elems(models) \cup {evaluations[k].evaluatorId : k \in ks}
        cols(r) ==
            (IF r \in Elems(models) THEN Elems(models) ELSE {})
              \cup {evaluations[k].targetId :
                      k \in {j \in ks : evaluations[j].evaluatorId = r}}
        hits(r, c) == {k \in ks : /\ evaluations[k].evaluatorId = r
                                  /\ evaluations[k].targetId = c}
        last(S) == CHOOSE k \in S : \A j \in S : j <= k
    IN  [r \in rows |->
            [c \in cols(r) |->
                IF hits(r, c) = {} THEN NULL
                ELSE Some(evaluations[last(hits(r, c))])]]

\* ------------------------------------------------------------------- state

Init ==
    /\ selectedModelIds = DEFAULT_SELECTION
    \* memoised in HomePage's first render, before ModelSelector sorts
    /\ selectedModels = SelectedModelsMemo(MODEL_OPTIONS, DEFAULT_SELECTION)
    /\ prompt = DEFAULT_PROMPT
    /\ mode = "multimodal"
    /\ imageFile = NULL
    /\ imagePreview = NULL
    /\ imageDescriptor = NULL
    /\ isProcessing = FALSE
    /\ errorMessage = NULL
    /\ result = NULL
    /\ userChoice = NULL
    /\ alignment = NULL
    /\ runCounter = 0
    /\ timers = <<>>
    /\ installed = NULL
    /\ events = 0
    /\ lastEvent = <<"mount", "">>

UserEvent(name, arg) ==
    /\ events < MaxEvents
    /\ events' = events + 1
    /\ lastEvent' = <<name, arg>>

\* handleImageSelected(file), file an optional file name.
HandleImageSelected(file) ==
    IF file = NULL
    THEN /\ imagePreview' = NULL
         /\ imageFile' = NULL
         /\ imageDescriptor' = NULL
    ELSE /\ imageFile' = file
         /\ imagePreview' = Some(<<"blob">> \o file[1])
         /\ imageDescriptor' = Some(Descriptor(file[1]))

\* A click on a roster card of ModelSelector.
ClickModel(modelId) ==
    /\ UserEvent("ClickModel", modelId)
    /\ IF Disabled(modelId)
       THEN UNCHANGED <<selectedModelIds, selectedModels>>
       ELSE LET next == HandleToggleModel(selectedModelIds, modelId)
            IN  /\ selectedModelIds' = next
                \* the updater's `return prev` keeps the array, and the memo
                /\ selectedModels' =
                       IF next = selectedModelIds THEN selectedModels
                       ELSE SelectedModelsMemo(availableModels, next)
    /\ UNCHANGED <<prompt, mode, imageFile, imagePreview, imageDescriptor,
                   isProcessing, errorMessage, result, userChoice, alignment,
                   runCounter, timers, installed>>

\* The textarea's onChange.
EditPrompt(value) ==
    /\ UserEvent("EditPrompt", "")
    /\ prompt' = value
    /\ UNCHANGED <<selectedModelIds, selectedModels, mode, imageFile,
                   imagePreview, imageDescriptor, isProcessing, errorMessage,
                   result, userChoice, alignment, runCounter, timers, installed>>

\* A click on a modality card.
ChangeMode(value) ==
    /\ UserEvent("ChangeMode", value)
    /\ mode' = value
    /\ UNCHANGED <<selectedModelIds, selectedModels, prompt, imageFile,
                   imagePreview, imageDescriptor, isProcessing, errorMessage,
                   result, userChoice, alignment, runCounter, timers, installed>>

\* The file input's onChange; the upload block is rendered unless mode is
\* "text".  A dialog closed without a file reports null.
SelectImage(file) ==
    /\ UserEvent("SelectImage", "")
    /\ mode # "text"
    /\ HandleImageSelected(file)
    /\ UNCHANGED <<selectedModelIds, selectedModels, prompt, mode,
                   isProcessing, errorMessage, result, userChoice, alignment,
                   runCounter, timers, installed>>

\* The Remove button, rendered with the file name inside the upload block.
RemoveImage ==
    /\ UserEvent("RemoveImage", "")
    /\ mode # "text"
    /\ imageFile # NULL
    /\ HandleImageSelected(NULL)
    /\ UNCHANGED <<selectedModelIds, selectedModels, prompt, mode,
                   isProcessing, errorMessage, result, userChoice, alignment,
                   runCounter, timers, installed>>

\* A click on the Run button: runEvaluation up to window.setTimeout.
ClickRun ==
    /\ UserEvent("ClickRun", "")
    /\ ~RunDisabled
    /\ IF TooFewModels
       THEN /\ errorMessage' = Some(MSG_MIN_MODELS)
            /\ UNCHANGED <<isProcessing, userChoice, alignment, timers>>
       ELSE IF PromptBlank
       THEN /\ errorMessage' = Some(MSG_NO_PROMPT)
            /\ UNCHANGED <<isProcessing, userChoice, alignment, timers>>
       ELSE /\ errorMessage' = NULL
            /\ isProcessing' = TRUE
            /\ userChoice' = NULL
            /\ alignment' = AlignmentEffect(userChoice # NULL, NULL, result,
                                            NULL)
            /\ timers' = Append(timers, Closure)
    /\ UNCHANGED <<selectedModelIds, selectedModels, prompt, mode, imageFile,
                   imagePreview, imageDescriptor, result, runCounter,
                   installed>>

\* The callback of window.setTimeout(..., 280), oldest timer first.
TimerFire ==
    /\ timers # <<>>
    /\ lastEvent' = <<"TimerFire", "">>
    /\ UNCHANGED <<selectedModelIds, selectedModels, prompt, mode, imageFile,
                   imagePreview, imageDescriptor, errorMessage, userChoice,
                   events>>
    /\ LET cb == Head(timers)
       IN  /\ timers' = Tail(timers)
           /\ runCounter' = runCounter + 1
           /\ isProcessing' = ProcessingAfterRun
           /\ installed' = Some(cb)
           /\ result' = Some(RunResult(cb))
           \* a new verdict object: the effect's dependency changed
           /\ alignment' = AlignmentEffect(TRUE, userChoice, result',
                                           alignment)

\* The Reset button, rendered while a result is held.
ClickReset ==
    /\ UserEvent("ClickReset", "")
    /\ result # NULL
    /\ prompt' = DEFAULT_PROMPT
    /\ mode' = "multimodal"
    /\ selectedModelIds' = DEFAULT_SELECTION
    /\ selectedModels' = SelectedModelsMemo(availableModels, DEFAULT_SELECTION)
    /\ HandleImageSelected(NULL)
    /\ result' = NULL
    /\ installed' = NULL
    /\ userChoice' = NULL
    /\ alignment' = AlignmentEffect(TRUE, NULL, NULL, NULL)
    /\ UNCHANGED <<isProcessing, errorMessage, runCounter, timers>>

\* A click on a "Your call" card of EvaluationDeck: one card per currently
\* selected model, rendered while a result is held.
Vote(modelId) ==
    /\ UserEvent("Vote", modelId)
    /\ result # NULL
    /\ Includes(selectedModels, modelId)
    /\ userChoice' = Some(modelId)
    /\ alignment' = AlignmentEffect(userChoice # Some(modelId),
                                    Some(modelId), result, alignment)
    /\ UNCHANGED <<selectedModelIds, selectedModels, prompt, mode, imageFile,
                   imagePreview, imageDescriptor, isProcessing, errorMessage,
                   result, runCounter, timers, installed>>

Next ==
    \/ \E m \in ModelIds : ClickModel(m)
    \/ \E p \in Prompts : EditPrompt(p)
    \/ \E m \in PromptMode : ChangeMode(m)
    \/ \E f \in Files : SelectImage(Some(f))
    \/ SelectImage(NULL)
    \/ RemoveImage
    \/ ClickRun
    \/ TimerFire
    \/ ClickReset
    \/ \E m \in ModelIds : Vote(m)

Spec == Init /\ [][Next]_vars

\* The browser runs a due timer callback: the callback cannot be starved.
FairSpec == Spec /\ WF_vars(TimerFire)

\* ------------------------------------------------------------ properties

NoDuplicates(seq) == \A i, j \in 1..Len(seq) : seq[i] = seq[j] => i = j

\* A step of runEvaluation that passed both checks.
Launch == ClickRun /\ ~TooFewModels /\ ~PromptBlank

\* What a rejected Run click must leave alone.
StartsNothing ==
    UNCHANGED <<isProcessing, result, userChoice, alignment, runCounter,
                timers>>

\* C1: the selection never holds more than MAX_SELECTIONS ids nor an id
\* twice; a click on an unselected model while MAX_SELECTIONS are selected
\* leaves the selection as it is, and a click on a selected model removes it.
C1_SelectionCap ==
    /\ [](Len(selectedModelIds) <= MAX_SELECTIONS
          /\ NoDuplicates(selectedModelIds))
    /\ [][\A m \in ModelIds :
            ClickModel(m) =>
              /\ (~Includes(selectedModelIds, m)
                  /\ Len(selectedModelIds) = MAX_SELECTIONS)
                    => selectedModelIds' = selectedModelIds
              /\ Includes(selectedModelIds, m)
                    => /\ ~Includes(selectedModelIds', m)
                       /\ Len(selectedModelIds') = Len(selectedModelIds) - 1
         ]_vars

\* A sixth model was clicked with five selected, and is not selected.
C1_Witness ==
    /\ lastEvent[1] = "ClickModel"
    /\ Len(selectedModelIds) = MAX_SELECTIONS
    /\ ~Includes(selectedModelIds, lastEvent[2])

\* C2: a Run click with fewer than MIN_MODELS models selected reports the
\* minimum-models message and starts nothing; every pending or completed
\* run was launched with MIN_MODELS to MAX_SELECTIONS models.
C2_MinModels ==
    /\ [][(ClickRun /\ Cardinality(Elems(selectedModelIds)) < MIN_MODELS)
            => /\ errorMessage' = Some(MSG_MIN_MODELS)
               /\ StartsNothing]_vars
    /\ [](\A cb \in Elems(timers) \cup Elems(installed) :
            /\ Len(cb.selectedModels) >= MIN_MODELS
            /\ Len(cb.selectedModels) <= MAX_SELECTIONS)

\* Run was clicked with three models selected.
C2_Witness ==
    /\ lastEvent[1] = "ClickRun"
    /\ Len(selectedModelIds) = MIN_MODELS - 1
    /\ errorMessage = Some(MSG_MIN_MODELS)

\* C3: a Run click with enough models and a prompt that is empty or only
\* whitespace reports the prompt message and starts nothing; with too few
\* models as well, the minimum-models message is the one reported.
C3_EmptyPrompt ==
    [][(ClickRun /\ \A i \in 1..Len(prompt) : prompt[i] = " ")
         => /\ StartsNothing
            /\ errorMessage' =
                 IF Cardinality(Elems(selectedModelIds)) < MIN_MODELS
                 THEN Some(MSG_MIN_MODELS) ELSE Some(MSG_NO_PROMPT)]_vars

\* Run was clicked with enough models and a prompt of one space.
C3_Witness ==
    /\ lastEvent[1] = "ClickRun"
    /\ prompt = <<" ">>
    /\ Len(selectedModelIds) >= MIN_MODELS
    /\ errorMessage = Some(MSG_NO_PROMPT)

\* C4: a launch captures exactly the selected models, and the result of a
\* completed run holds one cross-evaluation for each ordered pair of them,
\* self-pairs included (n * n entries), and one response for each of them.
C4_AllPairs ==
    /\ [][Launch =>
            /\ Elems(timers'[Len(timers')].selectedModels)
                 = Elems(selectedModelIds)
            /\ NoDuplicates(timers'[Len(timers')].selectedModels)]_vars
    /\ [](installed # NULL =>
            LET ms == Elems(installed[1].selectedModels)
                X == result[1].crossEvaluations
                R == result[1].responses
            IN  /\ result # NULL
                /\ \A e, t \in ms :
                     Cardinality({k \in 1..Len(X) :
                        X[k].evaluatorId = e /\ X[k].targetId = t}) = 1
                /\ Len(X) = Cardinality(ms) * Cardinality(ms)
                /\ \A m \in ms :
                     Cardinality({k \in 1..Len(R) : R[k].modelId = m}) = 1
                /\ Len(R) = Cardinality(ms))

\* A run launched with five models has completed.
C4_Witness ==
    /\ result # NULL
    /\ installed # NULL
    /\ Len(installed[1].selectedModels) = MAX_SELECTIONS
    /\ Len(result[1].crossEvaluations) = MAX_SELECTIONS * MAX_SELECTIONS

\* Two launches agree on prompt, mode, image descriptor and model selection.
SameLaunchInputs(a, b) ==
    /\ a.prompt = b.prompt
    /\ a.mode = b.mode
    /\ a.imageDescriptor = b.imageDescriptor
    /\ Elems(a.selectedModels) = Elems(b.selectedModels)

\* A cross-evaluation's arguments without the seed's last piece, the counter.
WithoutCounter(x) == [x EXCEPT !.seed = SubSeq(x.seed, 1, Len(x.seed) - 1)]

\* A completing run whose launch inputs are those of the result now held.
Rerun ==
    /\ TimerFire
    /\ installed # NULL
    /\ SameLaunchInputs(installed[1], Head(timers))

\* C5, as claimed: a run launched with the inputs of the run before it
\* installs the same responses, cross-evaluations, leaderboard and verdict.
C5_Deterministic ==
    [][Rerun => result' = result]_vars

\* C5, amended: a run launched with the inputs of the run before it passes
\* the same arguments to generateModelResponse for each model; the
\* arguments to generateCrossEvaluation agree for each pair except for the
\* payload seed, which ends with the number of runs completed so far.
C5_DeterministicUpToCounter ==
    [][Rerun =>
         LET R == result[1].responses
             Rn == result'[1].responses
             X == result[1].crossEvaluations
             Xn == result'[1].crossEvaluations
         IN  /\ Elems(Rn) = Elems(R)
             /\ {WithoutCounter(x) : x \in Elems(Xn)}
                  = {WithoutCounter(x) : x \in Elems(X)}
             /\ \A x \in Elems(Xn) :
                  /\ x.seed[Len(x.seed)] = ToString(runCounter)
                  /\ x \notin Elems(X)]_vars

\* A second run with the inputs of the first has completed.
C5_Witness ==
    /\ lastEvent[1] = "TimerFire"
    /\ events = 2
    /\ runCounter = 2
    /\ result # NULL
    /\ result[1].crossEvaluations[1].seed
         = PayloadSeed(DEFAULT_PROMPT, "multimodal", NULL, 1)

\* C6: once a run is accepted, a later state has isProcessing false and a
\* result held, provided the timer callback is run when due.
C6_RunCompletes ==
    isProcessing ~> (~isProcessing /\ result # NULL)

\* A run completed after the user acted during the delay.
C6_Witness ==
    /\ lastEvent[1] = "TimerFire"
    /\ ~isProcessing
    /\ result # NULL
    /\ events >= 2
    /\ runCounter = 1

\* C7: while a result is displayed, the matrix holds an evaluation in the
\* cell of every ordered pair of distinct currently selected models.
C7_MatrixFilled ==
    result # NULL =>
        LET matrix == BuildMatrix(result[1].crossEvaluations, selectedModels)
        IN  \A r, c \in Elems(selectedModels) :
                r # c => matrix[r][c] # NULL

\* C8: an alignment recorded before a run is launched is still held after
\* the launch.
C8_AgreementKept ==
    [][(Launch /\ alignment # NULL) => alignment' = alignment]_vars

\* C9: a run launched in text mode carries no image descriptor: none in its
\* closure, an empty image field in its seed, none in its responses.
C9_TextModeNoImage ==
    /\ \A cb \in Elems(timers) :
          cb.mode = "text" =>
            /\ cb.imageDescriptor = NULL
            /\ \E n \in 0..MaxEvents :
                 cb.payloadSeed = PayloadSeed(cb.prompt, "text", NULL, n)
    /\ result # NULL =>
          \A r \in Elems(result[1].responses) :
              r.mode = "text" => r.image = NULL

\* C10: at most one timer callback is pending, and isProcessing is true
\* exactly when one is.
C10_OneInFlight ==
    /\ Len(timers) <= 1
    /\ isProcessing <=> Len(timers) = 1

\* A second run is in flight while the first run's result is held.
C10_Witness ==
    /\ isProcessing
    /\ Len(timers) = 1
    /\ result # NULL
    /\ runCounter = 1

\* C11: a launch captures the prompt, mode, image descriptor, selected
\* models and runCounter of that moment; no user event changes a pending
\* capture; and the result a completing run installs is made from its
\* capture alone, whatever was edited during the delay.
C11_LaunchSnapshot ==
    /\ [][Launch =>
            LET cb == timers'[Len(timers')]
            IN  /\ cb.prompt = prompt
                /\ cb.mode = mode
                /\ cb.imageDescriptor = imageDescriptor
                /\ cb.selectedModels = selectedModels
                /\ cb.payloadSeed = PayloadSeed(prompt, mode, imageDescriptor,
                                                runCounter)]_vars
    /\ [][(timers # <<>> /\ ~TimerFire)
            => (timers' # <<>> /\ Head(timers') = Head(timers))]_vars
    /\ [][TimerFire =>
            LET cb == Head(timers)
                R == result'[1].responses
                X == result'[1].crossEvaluations
            IN  /\ Len(R) = Len(cb.selectedModels)
                /\ \A i \in 1..Len(R) :
                     /\ R[i].modelId = cb.selectedModels[i]
                     /\ R[i].prompt = cb.prompt
                     /\ R[i].mode = cb.mode
                     /\ R[i].image = cb.imageDescriptor
                /\ \A x \in Elems(X) :
                     /\ x.evaluatorId \in Elems(cb.selectedModels)
                     /\ x.targetId \in Elems(cb.selectedModels)
                     /\ x.prompt = cb.prompt
                     /\ x.mode = cb.mode
                     /\ x.seed = cb.payloadSeed
                     /\ x.seed[Len(x.seed)] = ToString(runCounter)
                /\ installed' = Some(cb)]_vars

\* A run completed after the prompt, the mode or the selection was changed
\* during its delay.
C11_Witness ==
    /\ lastEvent[1] = "TimerFire"
    /\ runCounter = 1
    /\ result # NULL
    /\ \/ installed[1].prompt # prompt
       \/ installed[1].mode # mode
       \/ Elems(installed[1].selectedModels) # Elems(selectedModelIds)
    /\ result[1].responses[1].prompt = installed[1].prompt

\* C12: once Reset was clicked, no result is held until the user clicks Run
\* again: the step that follows a Reset click leaves result null.
C12_ResetHolds ==
    [][lastEvent[1] = "ClickReset" => result' = NULL]_vars

====
